---- MODULE Spec2Model ----
(***************************************************************************)
(* Model of pretrain.py (GeCo): the distributed training loop.  One        *)
(* process per rank runs train(args); the processes meet in                *)
(* dist.all_reduce, and rank 0 writes the checkpoint files.                *)
(***************************************************************************)
EXTENDS Integers, Sequences, FiniteSets, TLC

(* ---- bounds of the model ---- *)
MaxW == 2          \* world sizes 1..MaxW
MaxTrain == 2      \* len(train) in 1..MaxTrain
MaxVal == 2        \* len(val) in 1..MaxVal
MaxB == 2          \* args.batch_size in 1..MaxB
MaxEpochs == 2     \* args.epochs in 0..MaxEpochs
MaxErr == 2        \* per-sample count error of a validation batch in 0..MaxErr, or nan
MaxTrainErr == 1   \* per-sample count error of a train batch in 0..MaxTrainErr
MaxDens == 2       \* density_map.sum() of one local batch in 1..MaxDens
MaxRuns == 2       \* launches of the job: the first one and relaunches with --resume_training
MaxGradNorm == 1   \* args.max_grad_norm in 0..MaxGradNorm
MaxTasks == 3      \* processes of a launch in the topology specification
MaxNodes == 2      \* nodes of a launch
MaxD == 2          \* torch.cuda.device_count() in 1..MaxD

VARIABLES
    run,              \* number of the current launch of the job
    world_size,       \* WORLD_SIZE / SLURM_NTASKS
    topo,             \* the launch: discovery mode, device count of a node, node
                      \* of each process
    args,             \* the parsed arguments: epochs, batch_size, resume_training,
                      \* max_grad_norm
    train_len,        \* len(train)
    val_len,          \* len(val)
    bestFile,         \* <model_name>.pth: << >> when absent, else <<checkpoint>>
    lastFile,         \* <model_name>_last.pth
    pc,               \* per rank: position in train(args)
    error,            \* per rank: the exception that ended the process, "" when none
    device,           \* per rank: the device torch.cuda.set_device bound
    group,            \* per rank: state of the process group
    start_epoch,      \* per rank
    best,             \* per rank: the best tracker (a quotient)
    checkpoint,       \* per rank: the local variable checkpoint, << >> when unbound
    scheduler,        \* per rank: StepLR.last_epoch, the number of scheduler steps
    epoch,            \* per rank: the loop variable, 0 before the first iteration
    bi,               \* per rank: number of batches taken from the current loader
    num_objects,      \* per rank: the tensor num_objects of the current batch
    density,          \* per rank: density_map.sum() of the current local batch
    denom,            \* per rank: the object counts the two losses of the current
                      \* train batch were normalised by
    metrics,          \* per rank: train_loss, val_loss, train_ae, val_ae, val_rmse
    ri,               \* per rank: number of metric reductions completed this epoch
    events,           \* per rank, observation: the steps of the current batch, in
                      \* the order they ran
    cnt,              \* per rank, observation: events of the current epoch
    tot,              \* per rank, observation: events of the current launch
    io,               \* observation: checkpoint reads and writes
    history           \* observation: of the values val_rmse / len(val) of the epochs
                      \* rank 0 has judged so far, in all launches, the least finite
                      \* one and nan: the ones that decide "less than all of them"

vars == << run, world_size, topo, args, train_len, val_len, bestFile, lastFile, pc,
           error, device, group, start_epoch, best, checkpoint, scheduler, epoch, bi, num_objects,
           density, denom, metrics, ri, events, cnt, tot, io, history >>

cfgVars == << world_size, train_len, val_len, topo >>

Ranks == 0 .. world_size - 1

(* ---- float values ---- *)
\* A float32 tensor holds a finite number or nan; nan is absorbing under + and *.
NaN == -1

FAdd(a, b) == IF a = NaN \/ b = NaN THEN NaN ELSE a + b

FMul(a, k) == IF a = NaN THEN NaN ELSE a * k

\* x.item() / n, kept as an exact fraction; nan / n is nan (d = 0, n = 0).
Quot(x, n) == IF x = NaN THEN [n |-> 0, d |-> 0] ELSE [n |-> x, d |-> n]

\* best = 10000000000000: larger than every finite value the bounded model
\* produces, written as the top element (n = 1, d = 0).
BestInit == [n |-> 1, d |-> 0]

IsFinite(q) == q.d > 0

\* Python's a < b on floats: false as soon as one side is nan.
Less(a, b) ==
    /\ IsFinite(a)
    /\ \/ b = BestInit
       \/ IsFinite(b) /\ a.n * b.d < b.n * a.d

RECURSIVE SumOver(_, _)
\* the SUM of all_reduce over the ranks in S of f[r]
SumOver(f, S) ==
    IF S = {} THEN 0
    ELSE LET r == CHOOSE x \in S : TRUE IN FAdd(f[r], SumOver(f, S \ {r}))

(* ---- data loading ---- *)
\* DistributedSampler.num_samples = ceil(len(dataset) / num_replicas)
NumSamples(n, w) == (n + w - 1) \div w

\* torch.randperm(n, generator seeded with seed + epoch): a permutation of the
\* sample ids 0..n-1 that depends on the epoch only; here the rotation by epoch.
Perm(n, ep) == [i \in 1 .. n |-> (i - 1 + ep) % n]

\* variant of Padded: the index list is not padded to total_size
NotPadded(ind, total) == ind

\* indices += indices[:padding_size] (repeated cyclically) up to total_size
Padded(ind, total) == [i \in 1 .. total |-> ind[((i - 1) % Len(ind)) + 1]]

\* indices[start : len : step]
Strided(s, start, step) ==
    LET idx == {i \in 1 .. Len(s) : i - 1 >= start /\ (i - 1 - start) % step = 0}
    IN  [j \in 1 .. Cardinality(idx) |-> s[start + (j - 1) * step + 1]]

\* DistributedSampler.__iter__ for one rank
SamplerIter(n, w, rank, ep) ==
    Strided(Padded(Perm(n, ep), NumSamples(n, w) * w), rank, w)

\* BatchSampler: consecutive batches of size b, the incomplete last one dropped
\* when drop_last
BatchSampler(ind, b, drop_last) ==
    LET full == Len(ind) \div b
        nb == IF drop_last \/ Len(ind) % b = 0 THEN full ELSE full + 1
    IN  [k \in 1 .. nb |->
            SubSeq(ind, (k - 1) * b + 1, IF k * b < Len(ind) THEN k * b ELSE Len(ind))]

\* train_loader as seen by rank p in epoch ep (sampler.set_epoch(ep))
train_loader(p, ep) ==
    BatchSampler(SamplerIter(train_len, world_size, p, ep), args.batch_size, TRUE)

\* val_loader as seen by rank p (set_epoch is never called on its sampler)
val_loader(p) ==
    BatchSampler(SamplerIter(val_len, world_size, p, 0), args.batch_size, FALSE)

(* ---- initial state ---- *)
ZeroMetrics ==
    [train_loss |-> 0, val_loss |-> 0, train_ae |-> 0, val_ae |-> 0, val_rmse |-> 0]

\* no loss of the current batch has been computed yet
NoDenom == [det |-> 0, main |-> 0]

ZeroCnt == [train_ar |-> 0, train |-> 0, val |-> 0, red |-> 0, sched |-> 0, ckpt |-> 0,
            opt |-> 0, backward |-> 0, clip |-> 0, train_terms |-> 0, val_terms |-> 0]

ZeroTot == [train |-> 0, val |-> 0, ar |-> 0, opt |-> 0, sched |-> 0, reads |-> 0,
            destroy |-> 0]

\* no device is bound yet
NoDevice == -1

ZeroIo == [bestEpoch |-> 0, lastEpoch |-> 0, bestWriters |-> {}, lastWriters |-> {},
           savedBest |-> BestInit]

\* the per-process state at the start of train(args)
Launch(w) ==
    /\ pc = [p \in 0 .. w - 1 |-> "setup"]
    /\ error = [p \in 0 .. w - 1 |-> ""]
    /\ device = [p \in 0 .. w - 1 |-> NoDevice]
    /\ group = [p \in 0 .. w - 1 |-> "none"]
    /\ start_epoch = [p \in 0 .. w - 1 |-> 0]
    /\ best = [p \in 0 .. w - 1 |-> BestInit]
    /\ checkpoint = [p \in 0 .. w - 1 |-> << >>]
    /\ scheduler = [p \in 0 .. w - 1 |-> 0]
    /\ epoch = [p \in 0 .. w - 1 |-> 0]
    /\ bi = [p \in 0 .. w - 1 |-> 0]
    /\ num_objects = [p \in 0 .. w - 1 |-> 0]
    /\ density = [p \in 0 .. w - 1 |-> 0]
    /\ denom = [p \in 0 .. w - 1 |-> NoDenom]
    /\ metrics = [p \in 0 .. w - 1 |-> ZeroMetrics]
    /\ ri = [p \in 0 .. w - 1 |-> 0]
    /\ events = [p \in 0 .. w - 1 |-> << >>]
    /\ cnt = [p \in 0 .. w - 1 |-> ZeroCnt]
    /\ tot = [p \in 0 .. w - 1 |-> ZeroTot]

\* the launch of w processes on one node that has a device for each of them,
\* with the explicit WORLD_SIZE / RANK / LOCAL_RANK variables
OneNode(w) == [mode |-> "env", device_count |-> w, node |-> [p \in 0 .. w - 1 |-> 1]]

Init ==
    /\ run = 1
    /\ world_size \in 1 .. MaxW
    /\ train_len \in 1 .. MaxTrain
    /\ val_len \in 1 .. MaxVal
    /\ topo = OneNode(world_size)
    /\ args \in [epochs : 0 .. MaxEpochs, batch_size : 1 .. MaxB,
                 resume_training : BOOLEAN, max_grad_norm : 0 .. MaxGradNorm]
    /\ bestFile = << >>
    /\ lastFile = << >>
    /\ io = ZeroIo
    /\ history = {}
    /\ Launch(world_size)

(* ---- helpers of the actions ---- *)
\* variant of IsRankZero: the rank test is missing
AnyRank(p) == TRUE

\* line 120 / 215: if rank == 0
IsRankZero(p) == p = 0

\* range(start_epoch + 1, args.epochs + 1): the value the loop variable takes next
NextEpoch(p) == IF epoch[p] = 0 THEN start_epoch[p] + 1 ELSE epoch[p] + 1

\* variant of InRange: the loop runs one epoch more, range(start_epoch + 1, epochs + 2)
InRangeInclusive(p) == NextEpoch(p) <= args.epochs + 1

\* line 119: the loop has another epoch to run
InRange(p) == NextEpoch(p) <= args.epochs

\* variant of ResumeLoads: only rank 0 loads the checkpoint
ResumeLoadsRankZero(p) == args.resume_training /\ p = 0

\* line 66: if args.resume_training, on every rank
ResumeLoads(p) == args.resume_training

\* variant of ReduceOrder: train_ae is reduced twice and val_ae never
ReduceOrderTwice == << "train_loss", "val_loss", "val_rmse", "train_ae", "train_ae" >>

\* the order of the five dist.all_reduce calls of lines 207-211
ReduceOrder == << "train_loss", "val_loss", "val_rmse", "train_ae", "val_ae" >>

\* a process blocked inside dist.all_reduce
ArWait == {"train_ar", "val_ar", "reduce_ar"}

\* ObjectNormalizedL2Loss(centerness, density_map, num_objects): an opaque scalar,
\* here the count error e of the batch
criterion(e) == e

\* Detection_criterion(location, lrtb, targets): an opaque scalar
det_criterion == 1

\* the tensor a blocked process handed to dist.all_reduce
Operand(p) ==
    IF pc[p] = "reduce_ar" THEN metrics[p][ReduceOrder[ri[p] + 1]] ELSE num_objects[p]

\* variant of AllReduce: rank 0's tensor is broadcast instead of the sum
AllReduceBroadcast(f, S) == f[CHOOSE r \in S : \A q \in S : r <= q]

\* dist.all_reduce (op = SUM): the value every rank of S receives
AllReduce(f, S) == SumOver(f, S)

Bump(r, k) == [r EXCEPT ![k] = @ + 1]

\* the number of occurrences of x in the sequence s
Count(s, x) == Cardinality({i \in 1 .. Len(s) : s[i] = x})

\* lines 136-150 and 173-188: what a batch runs up to its entry into the
\* all_reduce of num_objects
BatchHead == << "zero_grad", "forward", "all_reduce" >>

\* variant of TrainEvents: clip_grad_norm_ is called whatever max_grad_norm is
TrainEventsAlwaysClip(g) == << "loss", "backward", "clip", "step", "metrics" >>

\* lines 151-163: what a train batch runs after the all_reduce
TrainEvents(g) ==
    << "loss", "backward" >> \o (IF g > 0 THEN << "clip" >> ELSE << >>)
        \o << "step", "metrics" >>

\* variant of ValEvents: the validation batch ends without optimizer.step()
ValEventsNoStep(g) == << "loss", "metrics" >> \o (IF g > 0 THEN << "clip" >> ELSE << >>)

\* lines 189-205: what a validation batch runs after the all_reduce
ValEvents(g) ==
    << "loss", "metrics" >> \o (IF g > 0 THEN << "clip" >> ELSE << >>) \o << "step" >>

\* the counters of r advanced by the optimizer steps, backward passes and
\* clippings in the events ev
Tally(r, ev) ==
    [r EXCEPT !.opt = @ + Count(ev, "step"), !.backward = @ + Count(ev, "backward"),
              !.clip = @ + Count(ev, "clip")]

(* ---- topology discovery ---- *)
\* LOCAL_RANK as the launcher sets it: the index of the process among the
\* processes of its node
LocalRank(p) == Cardinality({q \in Ranks : q < p /\ topo.node[q] = topo.node[p]})

\* os.environ of process p: the scheduler's task count and process id, or the
\* explicit variables
environ(p) ==
    IF topo.mode = "slurm"
    THEN [SLURM_NTASKS |-> world_size, SLURM_PROCID |-> p]
    ELSE [WORLD_SIZE |-> world_size, RANK |-> p, LOCAL_RANK |-> LocalRank(p)]

\* lines 28-36: world_size, rank and gpu of process p
Discover(p) ==
    LET env == environ(p)
    IN  IF "SLURM_PROCID" \in DOMAIN env
        THEN [world_size |-> env.SLURM_NTASKS, rank |-> env.SLURM_PROCID,
              gpu |-> env.SLURM_PROCID % topo.device_count]
        ELSE [world_size |-> env.WORLD_SIZE, rank |-> env.RANK, gpu |-> env.LOCAL_RANK]

\* variant of OnLoadError: a failed load is swallowed and the process goes on
OnLoadErrorContinue == "loop"

\* lines 67-72 are not inside a try: an exception of the load ends the process
OnLoadError == "crashed"

(* ---- the steps of train(args), per rank ---- *)
\* lines 28-75: topology, init_process_group, model, optimizer, scheduler, resume
Setup(p) ==
    /\ pc[p] = "setup"
    /\ IF Discover(p).gpu >= topo.device_count
       THEN \* line 38: torch.cuda.set_device raises, invalid device ordinal
            /\ pc' = [pc EXCEPT ![p] = "crashed"]
            /\ error' = [error EXCEPT ![p] = "device"]
            /\ UNCHANGED << device, group, start_epoch, best, checkpoint, scheduler, tot >>
       ELSE /\ device' = [device EXCEPT ![p] = Discover(p).gpu]
            /\ group' = [group EXCEPT ![p] = "init"]
            /\ IF ResumeLoads(p)
               THEN IF bestFile = << >>
                    THEN \* torch.load raises: the process ends at line 67
                         /\ pc' = [pc EXCEPT ![p] = "crashed"]
                         /\ error' = [error EXCEPT ![p] = "load"]
                         /\ UNCHANGED << start_epoch, best, checkpoint, scheduler, tot >>
                    ELSE /\ tot' = [tot EXCEPT ![p] = Bump(@, "reads")]
                         /\ \/ /\ checkpoint' = [checkpoint EXCEPT ![p] = bestFile]
                               /\ start_epoch' = [start_epoch EXCEPT ![p] = bestFile[1].epoch]
                               /\ best' = [best EXCEPT ![p] = bestFile[1].best_val_ae]
                               /\ scheduler' = [scheduler EXCEPT ![p] = bestFile[1].scheduler]
                               /\ pc' = [pc EXCEPT ![p] = "loop"]
                               /\ UNCHANGED error
                            \/ \* one of the load_state_dict calls of lines 68-72
                               \* raises on this process
                               /\ pc' = [pc EXCEPT ![p] = OnLoadError]
                               /\ error' = [error EXCEPT ![p] = "load_state"]
                               /\ UNCHANGED << start_epoch, best, checkpoint, scheduler >>
               ELSE /\ start_epoch' = [start_epoch EXCEPT ![p] = 0]
                    /\ best' = [best EXCEPT ![p] = BestInit]
                    /\ pc' = [pc EXCEPT ![p] = "loop"]
                    /\ UNCHANGED << tot, error, checkpoint, scheduler >>
    /\ UNCHANGED << run, cfgVars, args, events, bestFile, lastFile, epoch, bi, num_objects,
                    density, denom, metrics, ri, cnt, io, history >>

\* lines 119-129: the loop takes its next epoch and zeroes the five sums
EpochBegin(p) ==
    /\ pc[p] = "loop"
    /\ InRange(p)
    /\ epoch' = [epoch EXCEPT ![p] = NextEpoch(p)]
    /\ metrics' = [metrics EXCEPT ![p] = ZeroMetrics]
    /\ cnt' = [cnt EXCEPT ![p] = ZeroCnt]
    /\ bi' = [bi EXCEPT ![p] = 0]
    /\ ri' = [ri EXCEPT ![p] = 0]
    /\ pc' = [pc EXCEPT ![p] = "train"]
    /\ UNCHANGED << run, cfgVars, args, device, events, bestFile, lastFile, error, group, start_epoch,
                    best, checkpoint, scheduler, num_objects, density, denom, tot, io,
                    history >>

\* lines 131-150: next train batch, zero_grad, forward, local object count,
\* entry into dist.all_reduce(num_objects)
TrainForward(p) ==
    /\ pc[p] = "train"
    /\ bi[p] < Len(train_loader(p, epoch[p]))
    /\ \E d \in 1 .. MaxDens :
          /\ density' = [density EXCEPT ![p] = d]
          /\ num_objects' = [num_objects EXCEPT ![p] = d]
    /\ bi' = [bi EXCEPT ![p] = @ + 1]
    /\ tot' = [tot EXCEPT ![p] = Bump(@, "ar")]
    /\ cnt' = [cnt EXCEPT ![p] = Bump(@, "train_ar")]
    /\ denom' = [denom EXCEPT ![p] = NoDenom]
    /\ events' = [events EXCEPT ![p] = BatchHead]
    /\ pc' = [pc EXCEPT ![p] = "train_ar"]
    /\ UNCHANGED << run, cfgVars, args, device, bestFile, lastFile, error, group, start_epoch,
                    best, checkpoint, scheduler, epoch, metrics, ri, io, history >>

\* lines 151-163: the two losses over num_objects, backward, clipping,
\* optimizer.step, train_loss and train_ae
TrainStep(p) ==
    /\ pc[p] = "train_step"
    /\ \E e \in 0 .. MaxTrainErr :
          LET size == Len(train_loader(p, epoch[p])[bi[p]])
              main_loss == criterion(e)
          IN  metrics' = [metrics EXCEPT
                  ![p].train_loss = FAdd(@, FMul(main_loss, size)),
                  ![p].train_ae = FAdd(@, FMul(e, size))]
    /\ denom' = [denom EXCEPT ![p] = [det |-> num_objects[p], main |-> num_objects[p]]]
    /\ LET ev == TrainEvents(args.max_grad_norm)
       IN  /\ events' = [events EXCEPT ![p] = @ \o ev]
           /\ cnt' = [cnt EXCEPT ![p] = [Tally(Bump(@, "train"), ev) EXCEPT
                   !.train_terms = @ + Len(train_loader(p, epoch[p])[bi[p]])]]
           /\ tot' = [tot EXCEPT ![p] = [Bump(@, "train") EXCEPT
                                            !.opt = @ + Count(ev, "step")]]
    /\ pc' = [pc EXCEPT ![p] = "train"]
    /\ UNCHANGED << run, cfgVars, args, device, bestFile, lastFile, error, group, start_epoch,
                    best, checkpoint, scheduler, epoch, bi, num_objects, density, ri,
                    io, history >>

\* lines 165-167: the train loader is exhausted; model.eval().  The locals of
\* the batch loop are dead from here on and the model forgets them.
TrainEnd(p) ==
    /\ pc[p] = "train"
    /\ bi[p] = Len(train_loader(p, epoch[p]))
    /\ bi' = [bi EXCEPT ![p] = 0]
    /\ num_objects' = [num_objects EXCEPT ![p] = 0]
    /\ density' = [density EXCEPT ![p] = 0]
    /\ denom' = [denom EXCEPT ![p] = NoDenom]
    /\ events' = [events EXCEPT ![p] = << >>]
    /\ pc' = [pc EXCEPT ![p] = "val"]
    /\ UNCHANGED << run, cfgVars, args, device, bestFile, lastFile, error, group, start_epoch,
                    best, checkpoint, scheduler, epoch, metrics, ri, cnt, tot, io,
                    history >>

\* lines 168-188: next validation batch, forward, local object count, entry into
\* dist.all_reduce(num_objects)
ValForward(p) ==
    /\ pc[p] = "val"
    /\ bi[p] < Len(val_loader(p))
    /\ \E d \in 1 .. MaxDens :
          /\ density' = [density EXCEPT ![p] = d]
          /\ num_objects' = [num_objects EXCEPT ![p] = d]
    /\ bi' = [bi EXCEPT ![p] = @ + 1]
    /\ tot' = [tot EXCEPT ![p] = Bump(@, "ar")]
    /\ events' = [events EXCEPT ![p] = BatchHead]
    /\ pc' = [pc EXCEPT ![p] = "val_ar"]
    /\ UNCHANGED << run, cfgVars, args, device, bestFile, lastFile, error, group, start_epoch,
                    best, checkpoint, scheduler, epoch, denom, metrics, ri, cnt, io,
                    history >>

\* lines 189-205: the losses, val_loss, val_ae, val_rmse, clipping, optimizer.step
ValStep(p) ==
    /\ pc[p] = "val_step"
    /\ \E e \in (0 .. MaxErr) \cup {NaN} :
          LET size == Len(val_loader(p)[bi[p]])
              loss == FAdd(criterion(e), det_criterion)
          IN  metrics' = [metrics EXCEPT
                  ![p].val_loss = FAdd(@, loss),
                  ![p].val_ae = FAdd(@, FMul(e, size)),
                  ![p].val_rmse = FAdd(@, FMul(FMul(e, e), size))]
    /\ LET ev == ValEvents(args.max_grad_norm)
       IN  /\ events' = [events EXCEPT ![p] = @ \o ev]
           /\ cnt' = [cnt EXCEPT ![p] = [Tally(Bump(@, "val"), ev) EXCEPT
                   !.val_terms = @ + Len(val_loader(p)[bi[p]])]]
           /\ tot' = [tot EXCEPT ![p] = [Bump(@, "val") EXCEPT
                                            !.opt = @ + Count(ev, "step")]]
    /\ pc' = [pc EXCEPT ![p] = "val"]
    /\ UNCHANGED << run, cfgVars, args, device, bestFile, lastFile, error, group, start_epoch,
                    best, checkpoint, scheduler, epoch, bi, num_objects, density, denom,
                    ri, io, history >>

\* line 206: the validation loader is exhausted; the locals of the batch loop
\* are dead from here on and the model forgets them
ValEnd(p) ==
    /\ pc[p] = "val"
    /\ bi[p] = Len(val_loader(p))
    /\ num_objects' = [num_objects EXCEPT ![p] = 0]
    /\ density' = [density EXCEPT ![p] = 0]
    /\ events' = [events EXCEPT ![p] = << >>]
    /\ pc' = [pc EXCEPT ![p] = "reduce"]
    /\ UNCHANGED << run, cfgVars, args, device, bestFile, lastFile, error, group, start_epoch,
                    best, checkpoint, scheduler, epoch, bi, denom, metrics, ri, cnt, tot,
                    io, history >>

\* lines 207-211: entry into the next of the five dist.all_reduce calls
ReduceCall(p) ==
    /\ pc[p] = "reduce"
    /\ tot' = [tot EXCEPT ![p] = Bump(@, "ar")]
    /\ pc' = [pc EXCEPT ![p] = "reduce_ar"]
    /\ UNCHANGED << run, cfgVars, args, device, events, bestFile, lastFile, error, group, start_epoch,
                    best, checkpoint, scheduler, epoch, bi, num_objects, density, denom,
                    metrics, ri, cnt, io, history >>

\* dist.all_reduce completes once every rank is inside it: each rank's tensor
\* is replaced by the sum and the rank goes on
AllReduceComplete ==
    /\ \A p \in Ranks : pc[p] \in ArWait
    /\ LET s == AllReduce([p \in Ranks |-> Operand(p)], Ranks)
       IN  /\ num_objects' = [p \in Ranks |->
                  IF pc[p] = "reduce_ar" THEN num_objects[p] ELSE s]
           /\ metrics' = [p \in Ranks |->
                  IF pc[p] = "reduce_ar"
                  THEN [metrics[p] EXCEPT ![ReduceOrder[ri[p] + 1]] = s]
                  ELSE metrics[p]]
    /\ ri' = [p \in Ranks |-> IF pc[p] = "reduce_ar" THEN ri[p] + 1 ELSE ri[p]]
    /\ cnt' = [p \in Ranks |->
          IF pc[p] = "reduce_ar" THEN Bump(cnt[p], "red") ELSE cnt[p]]
    /\ pc' = [p \in Ranks |->
          CASE pc[p] = "train_ar" -> "train_step"
            [] pc[p] = "val_ar" -> "val_step"
            [] OTHER -> IF ri[p] + 1 = Len(ReduceOrder) THEN "sched" ELSE "reduce"]
    /\ UNCHANGED << run, cfgVars, args, device, events, bestFile, lastFile, error, group, start_epoch,
                    best, checkpoint, scheduler, epoch, bi, density, denom, tot, io,
                    history >>

\* variant of SchedulerStep: the scheduler is not stepped
SchedulerStepSkipped(p) ==
    /\ pc[p] = "sched"
    /\ pc' = [pc EXCEPT ![p] = "ckpt"]
    /\ UNCHANGED << run, cfgVars, args, device, events, bestFile, lastFile, error, group, start_epoch,
                    best, checkpoint, scheduler, epoch, bi, num_objects, density, denom,
                    metrics, ri, cnt, tot, io, history >>

\* line 213: scheduler.step()
SchedulerStep(p) ==
    /\ pc[p] = "sched"
    /\ scheduler' = [scheduler EXCEPT ![p] = @ + 1]
    /\ cnt' = [cnt EXCEPT ![p] = Bump(@, "sched")]
    /\ tot' = [tot EXCEPT ![p] = Bump(@, "sched")]
    /\ pc' = [pc EXCEPT ![p] = "ckpt"]
    /\ UNCHANGED << run, cfgVars, args, device, events, bestFile, lastFile, error, group, start_epoch,
                    best, checkpoint, epoch, bi, num_objects, density, denom, metrics,
                    ri, io, history >>

\* the values of S that decide whether a value is less than every value of S
Deciding(S) ==
    {h \in S : ~IsFinite(h) \/ \A g \in S : IsFinite(g) => ~Less(g, h)}

\* line 218: val_rmse.item() / len(val) < best
Improved(x, b) == Less(x, b)

\* variant of NewCheckpoint: the scheduler state is the one before the epoch's
\* scheduler.step()
NewCheckpointBeforeStep(p) ==
    [epoch |-> epoch[p],
     scheduler |-> scheduler[p] - 1,
     best_val_ae |-> Quot(metrics[p].val_ae, val_len)]

\* lines 220-226: the dictionary built in an epoch that improved
NewCheckpoint(p) ==
    [epoch |-> epoch[p],
     scheduler |-> scheduler[p],
     best_val_ae |-> Quot(metrics[p].val_ae, val_len)]

\* lines 215-245: on rank 0 the best decision, the two torch.save calls and the
\* summary line; the other ranks skip the block
Checkpoint(p) ==
    /\ pc[p] = "ckpt"
    /\ cnt' = [cnt EXCEPT ![p] = Bump(@, "ckpt")]
    /\ IF IsRankZero(p)
       THEN LET x == Quot(metrics[p].val_rmse, val_len)
                ck == IF Improved(x, best[p]) THEN << NewCheckpoint(p) >>
                                               ELSE checkpoint[p]
            IN  /\ history' = Deciding(history \cup {x})
                /\ IF ck = << >>
                   THEN \* line 233 reads the unbound local checkpoint
                        /\ pc' = [pc EXCEPT ![p] = "crashed"]
                        /\ error' = [error EXCEPT ![p] = "UnboundLocalError"]
                        /\ UNCHANGED << best, checkpoint, bestFile, lastFile, io >>
                   ELSE /\ checkpoint' = [checkpoint EXCEPT ![p] = ck]
                        /\ lastFile' = ck
                        /\ IF Improved(x, best[p])
                           THEN /\ best' = [best EXCEPT ![p] = x]
                                /\ bestFile' = ck
                                /\ io' = [io EXCEPT
                                       !.bestEpoch = epoch[p],
                                       !.lastEpoch = epoch[p],
                                       !.bestWriters = @ \cup {p},
                                       !.lastWriters = @ \cup {p},
                                       !.savedBest = x]
                           ELSE /\ io' = [io EXCEPT
                                       !.lastEpoch = epoch[p],
                                       !.lastWriters = @ \cup {p}]
                                /\ UNCHANGED << best, bestFile >>
                        /\ pc' = [pc EXCEPT ![p] = "loop"]
                        /\ UNCHANGED error
       ELSE /\ pc' = [pc EXCEPT ![p] = "loop"]
            /\ UNCHANGED << best, checkpoint, bestFile, lastFile, io, history, error >>
    /\ UNCHANGED << run, cfgVars, args, device, events, group, start_epoch, scheduler, epoch, bi,
                    num_objects, density, denom, metrics, ri, tot >>

\* line 247: the loop is over; dist.destroy_process_group()
Teardown(p) ==
    /\ pc[p] = "loop"
    /\ ~InRange(p)
    /\ group' = [group EXCEPT ![p] = "destroyed"]
    /\ tot' = [tot EXCEPT ![p] = Bump(@, "destroy")]
    /\ pc' = [pc EXCEPT ![p] = "done"]
    /\ UNCHANGED << run, cfgVars, args, device, events, bestFile, lastFile, error, start_epoch, best,
                    checkpoint, scheduler, epoch, bi, num_objects, density, denom,
                    metrics, ri, cnt, io, history >>

(* ---- the job as a whole ---- *)
\* every process has returned or raised, or is blocked in an all_reduce that a
\* returned or raised process will never join
JobEnded ==
    /\ \A p \in Ranks : pc[p] \in {"done", "crashed"} \cup ArWait
    /\ \E p \in Ranks : pc[p] \in {"done", "crashed"}

\* the job is launched again on the same data with --resume_training; the
\* checkpoint files are what the earlier launches left
Relaunch ==
    /\ run < MaxRuns
    /\ JobEnded
    /\ run' = run + 1
    /\ args' = [args EXCEPT !.resume_training = TRUE]
    /\ pc' = [p \in Ranks |-> "setup"]
    /\ error' = [p \in Ranks |-> ""]
    /\ device' = [p \in Ranks |-> NoDevice]
    /\ group' = [p \in Ranks |-> "none"]
    /\ start_epoch' = [p \in Ranks |-> 0]
    /\ best' = [p \in Ranks |-> BestInit]
    /\ checkpoint' = [p \in Ranks |-> << >>]
    /\ scheduler' = [p \in Ranks |-> 0]
    /\ epoch' = [p \in Ranks |-> 0]
    /\ bi' = [p \in Ranks |-> 0]
    /\ num_objects' = [p \in Ranks |-> 0]
    /\ density' = [p \in Ranks |-> 0]
    /\ denom' = [p \in Ranks |-> NoDenom]
    /\ metrics' = [p \in Ranks |-> ZeroMetrics]
    /\ ri' = [p \in Ranks |-> 0]
    /\ events' = [p \in Ranks |-> << >>]
    /\ cnt' = [p \in Ranks |-> ZeroCnt]
    /\ tot' = [p \in Ranks |-> ZeroTot]
    /\ io' = [io EXCEPT !.bestEpoch = 0, !.lastEpoch = 0]
    /\ UNCHANGED << cfgVars, bestFile, lastFile, history >>

Proc(p) ==
    \/ Setup(p)
    \/ EpochBegin(p)
    \/ TrainForward(p)
    \/ TrainStep(p)
    \/ TrainEnd(p)
    \/ ValForward(p)
    \/ ValStep(p)
    \/ ValEnd(p)
    \/ ReduceCall(p)
    \/ SchedulerStep(p)
    \/ Checkpoint(p)
    \/ Teardown(p)

Next ==
    \/ \E p \in Ranks : Proc(p)
    \/ AllReduceComplete
    \/ Relaunch

Spec == Init /\ [][Next]_vars

(* ---- the launch topologies ---- *)
\* a launch of up to MaxTasks processes placed on up to MaxNodes nodes of
\* 1..MaxD devices each, in either discovery mode; the run has no epoch to do
InitTopo ==
    /\ run = 1
    /\ world_size \in 1 .. MaxTasks
    /\ topo \in [mode : {"slurm", "env"}, device_count : 1 .. MaxD,
                 node : [0 .. world_size - 1 -> 1 .. MaxNodes]]
    /\ train_len = 1
    /\ val_len = 1
    /\ args = [epochs |-> 0, batch_size |-> 1, resume_training |-> FALSE,
               max_grad_norm |-> 0]
    /\ bestFile = << >>
    /\ lastFile = << >>
    /\ io = ZeroIo
    /\ history = {}
    /\ Launch(world_size)

NextTopo == \E p \in Ranks : Setup(p) \/ Teardown(p)

TopoSpec == InitTopo /\ [][NextTopo]_vars

(* ---- the claims ---- *)
\* rank 0 executes lines 215-245 in this step
CkptStep == pc[0] = "ckpt" /\ pc'[0] # "ckpt"

\* val_rmse.item() / len(val) of the epoch rank 0 is about to judge
ValQuotient == Quot(metrics[0].val_rmse, val_len)

\* C1: rank 0 overwrites the "best" checkpoint at the end of an epoch if and
\* only if the epoch's val_rmse / len(val) is strictly less than every value of
\* that quantity recorded in earlier epochs, those before a resume included.
C1_BestIffStrictlyLess ==
    [][CkptStep =>
         ((io'.bestEpoch = epoch[0]) <=> (\A h \in history : Less(ValQuotient, h)))]_vars

\* C2: at the end of every epoch rank 0 writes the "latest" checkpoint, the
\* write succeeds in every reachable state, and "best" is written only in
\* epochs that improved.
C2_LatestEveryEpoch ==
    [][CkptStep =>
         /\ error'[0] = ""
         /\ io'.lastEpoch = epoch[0]
         /\ (io'.bestEpoch = epoch[0]) => Less(ValQuotient, best[0])]_vars

\* a process of a resumed launch that has loaded the checkpoint and not yet
\* begun an epoch
JustResumed(p) == args.resume_training /\ pc[p] = "loop" /\ epoch[p] = 0

\* C3: a launch resumed from the checkpoint written at the end of epoch e
\* continues with epoch e + 1, and its best equals the value best had when the
\* checkpoint was saved.
C3_ResumeRoundTrip ==
    \A p \in Ranks :
        JustResumed(p) =>
            /\ NextEpoch(p) = bestFile[1].epoch + 1
            /\ best[p] = io.savedBest

\* C4: the object count a process uses as the denominator of both train losses
\* is the value its num_objects holds after the all-reduce, which is the sum of
\* the local density totals of all processes for that batch step and the same
\* on all processes; the losses are computed only after the all-reduce completed.
C4_GlobalObjectCount ==
    [][/\ ((\A p \in Ranks : pc[p] = "train_ar") /\ (\A p \in Ranks : pc'[p] = "train_step"))
           => \A p \in Ranks : num_objects'[p] = SumOver(density, Ranks)
       /\ \A p \in Ranks :
             /\ pc'[p] = "train_step" => pc[p] \in {"train_ar", "train_step"}
             /\ (pc[p] = "train_step" /\ pc'[p] = "train_step")
                   => num_objects'[p] = num_objects[p]
             /\ (pc[p] = "train_step" /\ pc'[p] = "train")
                   => denom'[p] = [det |-> num_objects[p], main |-> num_objects[p]]]_vars

\* two processes have just left the all-reduce of a train batch with different
\* local totals, and both hold the sum
C4_Witness ==
    /\ world_size = 2
    /\ \A p \in Ranks : pc[p] = "train_step"
    /\ density[0] # density[1]
    /\ num_objects[0] = density[0] + density[1]
    /\ num_objects[1] = num_objects[0]

\* a process that has left the train loop of its current epoch
PastTrain(p) == pc[p] \in {"val", "val_ar", "val_step", "reduce", "reduce_ar", "sched", "ckpt"}

\* C5: in each epoch the sharded train loader gives every process the same
\* number of batches, and every process issues the same number of object-count
\* all-reduce calls in the train phase.
C5_SameTrainBatches ==
    \A p, q \in Ranks :
        /\ \A ep \in 1 .. MaxEpochs :
              Len(train_loader(p, ep)) = Len(train_loader(q, ep))
        /\ (PastTrain(p) /\ PastTrain(q) /\ epoch[p] = epoch[q])
              => /\ cnt[p].train_ar = cnt[q].train_ar
                 /\ cnt[p].train = cnt[q].train
                 /\ cnt[p].train_ar = Len(train_loader(p, epoch[p]))

\* one train sample sharded over two processes (the shard of rank 1 is
\* padding): both have run one train batch
C5_Witness ==
    /\ world_size = 2
    /\ train_len = 1
    /\ \A p \in Ranks : PastTrain(p) /\ cnt[p].train_ar = 1 /\ cnt[p].train = 1

\* C6: no process is ever blocked in an all_reduce that another process, having
\* raised or returned, will never join (the job does not deadlock).
C6_NoDeadlock ==
    \A p, q \in Ranks : pc[p] \in ArWait => pc[q] \notin {"crashed", "done"}

\* a process of a resumed launch whose torch.load (line 67) succeeded
Loaded(p) == args.resume_training /\ pc[p] # "setup" /\ error[p] # "load"

\* C7: only rank 0 has ever written the "best" or the "latest" artifact, and a
\* resuming process reads the checkpoint exactly once, at startup before the
\* first epoch, and never again.
C7_SingleWriterReadOnce ==
    /\ io.bestWriters \subseteq {0}
    /\ io.lastWriters \subseteq {0}
    /\ \A p \in Ranks :
          /\ tot[p].reads = IF Loaded(p) THEN 1 ELSE 0
          /\ epoch[p] > 0 => pc[p] # "setup"

\* a resumed launch of two processes: both have read once, rank 0 has written
\* both artifacts in this launch
C7_Witness ==
    /\ world_size = 2
    /\ run = 2
    /\ \A p \in Ranks : tot[p].reads = 1 /\ epoch[p] > 0
    /\ io.bestEpoch > 0
    /\ io.lastWriters = {0}

\* C8 as stated: a process with rank # 0 never reads or writes a persisted
\* checkpoint artifact, also at startup of a resumed run.
C8_OnlyRankZeroTouches ==
    \A p \in Ranks :
        p # 0 => /\ tot[p].reads = 0
                 /\ p \notin io.bestWriters \cup io.lastWriters

\* C8 as amended: a process with rank # 0 never writes a persisted checkpoint
\* artifact; when resuming it reads the checkpoint once at startup, like rank
\* 0, and takes its start epoch from it.
C8_NonZeroRankReadsOnceNeverWrites ==
    \A p \in Ranks :
        p # 0 => /\ p \notin io.bestWriters \cup io.lastWriters
                 /\ Loaded(p) => tot[p].reads = 1
                 /\ (Loaded(p) /\ error[p] # "load_state")
                       => /\ checkpoint[p] # << >>
                          /\ start_epoch[p] = checkpoint[p][1].epoch
                 /\ ~Loaded(p) => tot[p].reads = 0

\* rank 1 of a resumed launch has read the checkpoint and is running an epoch
C8_Witness ==
    /\ world_size = 2
    /\ tot[1].reads = 1
    /\ epoch[1] > start_epoch[1]
    /\ start_epoch[1] > 0

\* C9: when args.epochs does not exceed the epoch to start from, a process runs
\* no train batch, no validation batch, no all-reduce, no optimizer or
\* scheduler step, no checkpoint is written in the launch, and the process
\* goes from the loop head to the teardown of the process group.
C9_NoEpochNoEffect ==
    \A p \in Ranks :
        (pc[p] \notin {"setup", "crashed"} /\ args.epochs <= start_epoch[p])
            => /\ tot[p].train = 0 /\ tot[p].val = 0 /\ tot[p].ar = 0
               /\ tot[p].opt = 0 /\ tot[p].sched = 0
               /\ epoch[p] = 0
               /\ io.bestEpoch = 0 /\ io.lastEpoch = 0
               /\ pc[p] \in {"loop", "done"}
               /\ pc[p] = "loop" => ~InRange(p)
               /\ pc[p] = "done" => (group[p] = "destroyed" /\ tot[p].destroy = 1)

\* a resumed launch whose checkpoint is of the last configured epoch: the
\* process has read it and torn the group down
C9_Witness ==
    \E p \in Ranks :
        /\ pc[p] = "done"
        /\ args.epochs > 0
        /\ args.epochs <= start_epoch[p]
        /\ tot[p].reads = 1

\* C10: within a process an epoch runs all train batches, then all validation
\* batches, then the five metric reductions, then exactly one scheduler step,
\* then (rank 0) the checkpoint block; nothing of the next epoch happens
\* before the scheduler step, and the scheduler is stepped once per epoch.
C10_EpochOrder ==
    \A p \in Ranks :
        LET c == cnt[p]
            nt == Len(train_loader(p, epoch[p]))
            nv == Len(val_loader(p))
        IN  /\ epoch[p] = 0 => tot[p].sched = 0
            /\ epoch[p] > 0 => tot[p].sched = epoch[p] - start_epoch[p] - 1 + c.sched
            /\ pc[p] \in {"train", "train_ar", "train_step"}
                  => c.train <= nt /\ c.val = 0 /\ c.red = 0 /\ c.sched = 0 /\ c.ckpt = 0
            /\ pc[p] \in {"val", "val_ar", "val_step"}
                  => c.train = nt /\ c.val <= nv /\ c.red = 0 /\ c.sched = 0 /\ c.ckpt = 0
            /\ pc[p] \in {"reduce", "reduce_ar"}
                  => c.train = nt /\ c.val = nv /\ c.red < 5 /\ c.sched = 0 /\ c.ckpt = 0
            /\ pc[p] = "sched"
                  => c.train = nt /\ c.val = nv /\ c.red = 5 /\ c.sched = 0 /\ c.ckpt = 0
            /\ pc[p] = "ckpt"
                  => c.train = nt /\ c.val = nv /\ c.red = 5 /\ c.sched = 1 /\ c.ckpt = 0
            /\ (pc[p] \in {"loop", "done"} /\ epoch[p] > 0)
                  => c.train = nt /\ c.val = nv /\ c.red = 5 /\ c.sched = 1 /\ c.ckpt = 1
            /\ error[p] = "UnboundLocalError" => c.red = 5 /\ c.sched = 1

\* rank 0 has completed its second epoch, with train and validation batches
C10_Witness ==
    /\ pc[0] = "loop"
    /\ epoch[0] = 2
    /\ start_epoch[0] = 0
    /\ cnt[0].train > 0 /\ cnt[0].val > 0 /\ cnt[0].red = 5
    /\ cnt[0].sched = 1 /\ cnt[0].ckpt = 1
    /\ tot[0].sched = 2

\* the names of the five metric sums
MetricNames == {"train_loss", "val_loss", "train_ae", "val_ae", "val_rmse"}

\* C11: each of the five metric sums is zero at the start of every epoch, is
\* changed during the phases only by the owning process's own batch steps, and
\* is all-reduced across the processes exactly once per epoch, after the last
\* validation batch; none is reduced earlier, reduced twice or carried into the
\* next epoch.
C11_MetricsReducedOnce ==
    [][/\ {ReduceOrder[i] : i \in 1 .. Len(ReduceOrder)} = MetricNames
       /\ Len(ReduceOrder) = Cardinality(MetricNames)
       /\ \A p \in Ranks :
             /\ epoch'[p] # epoch[p] => metrics'[p] = ZeroMetrics
             /\ metrics'[p] # metrics[p]
                   => pc[p] \in {"loop", "train_step", "val_step", "reduce_ar"} \/ run' # run
             /\ (pc[p] = "train_step" /\ pc'[p] = "train")
                   => /\ metrics'[p].val_loss = 0 /\ metrics'[p].val_ae = 0
                      /\ metrics'[p].val_rmse = 0
                      /\ \A q \in Ranks \ {p} : metrics'[q] = metrics[q]
             /\ (pc[p] = "val_step" /\ pc'[p] = "val")
                   => /\ metrics'[p].train_loss = metrics[p].train_loss
                      /\ metrics'[p].train_ae = metrics[p].train_ae
                      /\ \A q \in Ranks \ {p} : metrics'[q] = metrics[q]
             /\ ri'[p] # ri[p]
                   => \/ ri'[p] = 0
                      \/ pc[p] = "reduce_ar" /\ ri'[p] = ri[p] + 1
             /\ pc[p] \in {"sched", "ckpt"} => ri[p] = Len(ReduceOrder)
             /\ pc[p] \in {"train", "train_ar", "train_step", "val", "val_ar", "val_step"}
                   => ri[p] = 0
             /\ (pc[p] = "reduce_ar" /\ pc'[p] # "reduce_ar" /\ run' = run)
                   => LET k == ReduceOrder[ri[p] + 1]
                      IN  /\ \A q \in Ranks : pc[q] = "reduce_ar" /\ ri[q] = ri[p]
                          /\ cnt[p].train = Len(train_loader(p, epoch[p]))
                          /\ cnt[p].val = Len(val_loader(p))
                          /\ metrics'[p][k] = SumOver([q \in Ranks |-> metrics[q][k]], Ranks)
                          /\ \A j \in MetricNames \ {k} : metrics'[p][j] = metrics[p][j]]_vars

\* two processes have completed the five reductions of an epoch and hold the
\* same, non-zero global sums
C11_Witness ==
    /\ world_size = 2
    /\ \A p \in Ranks : pc[p] = "sched" /\ ri[p] = 5
    /\ metrics[0] = metrics[1]
    /\ metrics[0].train_ae = 2
    /\ metrics[0].val_ae > 2
    /\ metrics[0].val_rmse > metrics[0].val_ae

\* C12: on every execution, also one that ends through a failure on rank 0 in
\* the checkpoint step or through a failed resume load, each process tears the
\* process group down exactly once, after its last collective operation, and
\* issues no all-reduce after the teardown.
C12_TeardownExactlyOnce ==
    \A p \in Ranks :
        /\ tot[p].destroy <= 1
        /\ pc[p] \in {"done", "crashed"} => tot[p].destroy = 1
        /\ group[p] = "destroyed" => pc[p] = "done"

\* C13: in the train phase and in the validation phase each batch adds to the
\* phase's loss sum the batch's combined loss (counting loss plus detection
\* loss as the phase computes them) multiplied by the number of samples of the
\* batch.  The train detection loss is det_criterion / num_objects, so the train
\* conjunct is stated multiplied through by num_objects.
C13_LossTimesBatchSize ==
    [][\A p \in Ranks :
          /\ (pc[p] = "train_step" /\ pc'[p] = "train")
                => \E e \in 0 .. MaxTrainErr :
                      LET size == Len(train_loader(p, epoch[p])[bi[p]])
                      IN  /\ metrics'[p].train_ae = FAdd(metrics[p].train_ae, FMul(e, size))
                          /\ num_objects[p] * (metrics'[p].train_loss - metrics[p].train_loss)
                               = (criterion(e) * num_objects[p] + det_criterion) * size
          /\ (pc[p] = "val_step" /\ pc'[p] = "val")
                => \E e \in (0 .. MaxErr) \cup {NaN} :
                      LET size == Len(val_loader(p)[bi[p]])
                      IN  /\ metrics'[p].val_ae = FAdd(metrics[p].val_ae, FMul(e, size))
                          /\ metrics'[p].val_loss
                               = FAdd(metrics[p].val_loss,
                                      FMul(FAdd(criterion(e), det_criterion), size))]_vars

\* C14: every training batch runs zero gradients, forward, object-count
\* all-reduce, loss computation, backward, gradient clipping, optimizer step,
\* metric accumulation in this order; the clipping step runs if and only if
\* max_grad_norm is strictly greater than 0; exactly one optimizer step is
\* taken per training batch.
C14_TrainBatchOrder ==
    \A p \in Ranks :
        /\ pc[p] \in {"train_ar", "train_step"}
              => events[p] = << "zero_grad", "forward", "all_reduce" >>
        /\ (pc[p] = "train" /\ bi[p] > 0)
              => /\ events[p] =
                       IF args.max_grad_norm > 0
                       THEN << "zero_grad", "forward", "all_reduce", "loss", "backward",
                               "clip", "step", "metrics" >>
                       ELSE << "zero_grad", "forward", "all_reduce", "loss", "backward",
                               "step", "metrics" >>
                 /\ Count(events[p], "step") = 1
        /\ pc[p] \in {"train", "train_ar", "train_step"}
              => /\ cnt[p].opt = cnt[p].train
                 /\ cnt[p].clip = (IF args.max_grad_norm > 0 THEN cnt[p].train ELSE 0)

\* a process has finished its second train batch of an epoch with a positive
\* max_grad_norm, the clipping included
C14_Witness ==
    \E p \in Ranks :
        /\ pc[p] = "train"
        /\ bi[p] = 2
        /\ args.max_grad_norm > 0
        /\ Count(events[p], "clip") = 1
        /\ cnt[p].opt = 2

\* C15: an optimizer step is issued after every validation batch although the
\* validation phase runs no backward pass: in each epoch the optimizer steps of
\* a process number its train batches plus its validation batches, its backward
\* passes number its train batches only.
C15_OptimizerStepsPerEpoch ==
    \A p \in Ranks :
        /\ cnt[p].opt = cnt[p].train + cnt[p].val
        /\ cnt[p].backward = cnt[p].train
        /\ (pc[p] = "val" /\ bi[p] > 0)
              => /\ events[p][Len(events[p])] = "step"
                 /\ Count(events[p], "step") = 1
                 /\ Count(events[p], "backward") = 0
        /\ pc[p] \in {"reduce", "reduce_ar", "sched", "ckpt"}
              => /\ cnt[p].train = Len(train_loader(p, epoch[p]))
                 /\ cnt[p].val = Len(val_loader(p))
                 /\ cnt[p].opt = Len(train_loader(p, epoch[p])) + Len(val_loader(p))
                 /\ cnt[p].backward = Len(train_loader(p, epoch[p]))

\* a process ends an epoch of one train batch and two validation batches with
\* three optimizer steps and one backward pass
C15_Witness ==
    \E p \in Ranks :
        /\ pc[p] = "sched"
        /\ Len(train_loader(p, epoch[p])) = 1
        /\ Len(val_loader(p)) = 2
        /\ cnt[p].opt = 3
        /\ cnt[p].backward = 1

\* C16: for every launch topology, in either discovery mode, every process has
\* its rank in [0, world_size), no two processes on the same node are bound to
\* the same device, and in the scheduler mode the device is rank modulo the
\* device count.
C16_OneProcessPerDevice ==
    \A p \in Ranks :
        /\ Discover(p).rank \in 0 .. Discover(p).world_size - 1
        /\ device[p] # NoDevice
              => /\ topo.mode = "slurm"
                       => device[p] = Discover(p).rank % topo.device_count
                 /\ \A q \in Ranks \ {p} :
                       (topo.node[q] = topo.node[p] /\ device[q] # NoDevice)
                           => device[q] # device[p]

\* the resume-time load of process p has failed
LoadFailed(p) == error[p] \in {"load", "load_state"}

\* C17: when the resume-time load fails on a process, that process runs no
\* train or validation batch, no optimizer or scheduler step and no checkpoint
\* write, and no other process completes an epoch or causes a checkpoint to be
\* written in that launch.
C17_LoadFailureNoProgress ==
    \A p \in Ranks :
        LoadFailed(p)
            => /\ pc[p] = "crashed"
               /\ epoch[p] = 0
               /\ tot[p].train = 0 /\ tot[p].val = 0 /\ tot[p].ar = 0
               /\ tot[p].opt = 0 /\ tot[p].sched = 0
               /\ io.bestEpoch = 0 /\ io.lastEpoch = 0
               /\ \A q \in Ranks :
                     /\ tot[q].sched = 0 /\ tot[q].opt = 0
                     /\ cnt[q].ckpt = 0
                     /\ pc[q] \notin {"sched", "ckpt"}

\* a resumed launch of two processes: the load has failed on rank 0 after the
\* file was read, rank 1 has loaded and waits in the all_reduce of its first
\* train batch
C17_Witness ==
    /\ world_size = 2
    /\ error[0] = "load_state"
    /\ tot[0].reads = 1
    /\ error[1] = ""
    /\ pc[1] = "train_ar"
    /\ epoch[1] = start_epoch[1] + 1

\* C18: after every completed epoch e, in fresh and in resumed runs, the
\* "latest" artifact holds the state of epoch e, its epoch index and its
\* scheduler state included, also when epoch e did not improve on the best
\* validation metric.
C18_LatestHoldsCompletedEpoch ==
    (pc[0] = "loop" /\ epoch[0] > 0)
        => /\ lastFile # << >>
           /\ lastFile[1].epoch = epoch[0]
           /\ lastFile[1].scheduler = scheduler[0]

\* every process has finished the batches of the epoch rank 0 is in and has
\* not begun the next one
EpochBatchesDone ==
    \A q \in Ranks :
        /\ pc[q] \in {"reduce", "reduce_ar", "sched", "ckpt"}
        /\ epoch[q] = epoch[0]

\* C19: for every world size, dataset size and batch size, the per-sample
\* error terms summed into the reduced validation sums number len(val), and
\* the terms of the reduced train absolute-error sum number len(train): the
\* lengths the sums are divided by.
C19_TermsEqualDatasetLength ==
    EpochBatchesDone
        => /\ SumOver([q \in Ranks |-> cnt[q].val_terms], Ranks) = val_len
           /\ SumOver([q \in Ranks |-> cnt[q].train_terms], Ranks) = train_len

\* C20: in every checkpoint that is written, and at the end of every epoch e of
\* a fresh or resumed run, the scheduler's step counter equals the epoch index:
\* a checkpoint with epoch index e carries a scheduler stepped e times, and a
\* run resumed from it steps the scheduler once for each epoch it runs.
C20_SchedulerCounterIsEpoch ==
    /\ bestFile # << >> => bestFile[1].scheduler = bestFile[1].epoch
    /\ lastFile # << >> => lastFile[1].scheduler = lastFile[1].epoch
    /\ \A p \in Ranks :
          /\ scheduler[p] = start_epoch[p] + tot[p].sched
          /\ pc[p] = "ckpt" => scheduler[p] = epoch[p]
          /\ (pc[p] \in {"loop", "done"} /\ epoch[p] > 0) => scheduler[p] = epoch[p]
          /\ (pc[p] \in {"loop", "done"} /\ epoch[p] = 0) => scheduler[p] = start_epoch[p]
          /\ (pc[p] \notin {"setup", "loop", "done", "ckpt", "crashed"})
                => scheduler[p] = epoch[p] - 1

\* a launch resumed from a checkpoint of epoch 1 has stepped the scheduler once
\* more at the end of its epoch 2
C20_Witness ==
    /\ run = 2
    /\ bestFile # << >>
    /\ bestFile[1].epoch = 1
    /\ pc[0] = "ckpt"
    /\ start_epoch[0] = 1
    /\ epoch[0] = 2
    /\ scheduler[0] = 2
    /\ tot[0].sched = 1

====
